---- MODULE Spec2Model ----
(***************************************************************************)
(* Election data analyzer: the console analyzer (ElectionDataAnalyzer,     *)
(* election_data_analyzer.py) and the desktop application                  *)
(* (ElectionAnalyzerApp, terminalBase.py).  Both hold a current table      *)
(* (self.data) and a mapping of analysis results (self.analysis_results)   *)
(* and offer load, three analyses, visualizations and a text report.       *)
(*                                                                         *)
(* Labels (region, candidate and party names) are modelled as positive     *)
(* integers whose numeric order stands for the alphabetical order pandas   *)
(* sorts group keys by; 0 stands for a missing (NaN) cell.                 *)
(***************************************************************************)
EXTENDS Integers, Sequences, FiniteSets, TLC

VARIABLES shell, data, analysis_results, visualizations, outcome, kept

\* kept is the report file left behind by an earlier run of the program.
vars == <<shell, data, analysis_results, visualizations, outcome, kept>>

---------------------------------------------------------------------------
(* Bounds and input domains *)

MaxRows == 2

MaxCandidates == 11

Regions == {1, 2}

Candidates == {1, 2}

Parties == {1, 2}

VoteVals == {1, 2}

Timestamps == {1, 2}

NaN == 0

Blank == -1

TopN == 10

---------------------------------------------------------------------------
(* Tables *)

required_columns == <<"region", "candidate", "party", "votes">>

Kinds == {"turnout_by_region", "party_performance", "candidate_performance"}

NoData == [loaded |-> FALSE, columns |-> {}, rows |-> <<>>]

Frame(cols, rs) == [loaded |-> TRUE, columns |-> cols, rows |-> rs]

AllColumns == {required_columns[i] : i \in 1..Len(required_columns)}

\* A table with column c removed from its schema.
DropColumn(t, c) ==
    Frame(t.columns \ {c},
          [i \in 1..Len(t.rows) |-> [k \in t.columns \ {c} |-> t.rows[i][k]]])

SeqsUpTo(S, n) == UNION {[1..m -> S] : m \in 0..n}

Sum(f, S) ==
    LET RECURSIVE Go(_)
        Go(T) == IF T = {} THEN 0
                 ELSE LET x == CHOOSE y \in T : TRUE IN f[x] + Go(T \ {x})
    IN Go(S)

---------------------------------------------------------------------------
(* pandas: groupby(cols)['votes'].sum().sort_values(ascending=False) *)

KeyOf(row, cols) == [i \in 1..Len(cols) |-> row[cols[i]]]

HasNaN(key) == \E i \in 1..Len(key) : key[i] = NaN

\* Lexicographic order of two keys of the same length.
KeyLess(a, b) ==
    \E i \in 1..Len(a) :
        /\ a[i] < b[i]
        /\ \A j \in 1..(i - 1) : a[j] = b[j]

\* groupby drops the rows whose key holds a NaN (dropna=True, the default).
GroupKeys(t, cols) ==
    {k \in {KeyOf(t.rows[i], cols) : i \in 1..Len(t.rows)} : ~HasNaN(k)}

\* Mutant of GroupTotal: the rows of the group are counted (.count()), not summed.
GroupCount(t, cols, k) ==
    Cardinality({i \in 1..Len(t.rows) : KeyOf(t.rows[i], cols) = k})

GroupTotal(t, cols, k) ==
    LET members == {i \in 1..Len(t.rows) : KeyOf(t.rows[i], cols) = k}
    IN Sum([i \in members |-> t.rows[i]["votes"]], members)

\* The keys of S in ascending order (groupby sort=True, the default).
Ascending(S) ==
    LET RECURSIVE Go(_)
        Go(T) == IF T = {} THEN <<>>
                 ELSE LET m == CHOOSE x \in T : \A y \in T \ {x} : KeyLess(x, y)
                      IN <<m>> \o Go(T \ {m})
    IN Go(S)

\* One entry per group, in ascending key order, with the sum of its votes.
GroupBySum(t, cols) ==
    LET ks == Ascending(GroupKeys(t, cols))
    IN [i \in 1..Len(ks) |-> [key |-> ks[i], total |-> GroupTotal(t, cols, ks[i])]]

\* Mutant of SortValues: ascending=False is missing.
SortValuesAscending(s) ==
    LET RECURSIVE Go(_)
        Go(I) == IF I = {} THEN {<<>>}
                 ELSE UNION {{<<s[i]>> \o r : r \in Go(I \ {i})} :
                             i \in {j \in I : \A k \in I : s[j].total <= s[k].total}}
    IN Go(1..Len(s))

\* sort_values(ascending=False) uses numpy's quicksort, which promises no order
\* among equal values: every descending arrangement of the series is an outcome.
SortValues(s) ==
    LET RECURSIVE Go(_)
        Go(I) == IF I = {} THEN {<<>>}
                 ELSE UNION {{<<s[i]>> \o r : r \in Go(I \ {i})} :
                             i \in {j \in I : \A k \in I : s[k].total <= s[j].total}}
    IN Go(1..Len(s))

\* Mutant of head: the series is not cut.
HeadAll(s, n) == s

\* Series.head(n)
head(s, n) == SubSeq(s, 1, IF Len(s) < n THEN Len(s) ELSE n)

KindCols(kind) ==
    CASE kind = "turnout_by_region" -> <<"region">>
      [] kind = "party_performance" -> <<"party">>
      [] kind = "candidate_performance" -> <<"candidate", "party">>

\* The columns an analysis of this kind reads.
KindReads(kind) == {KindCols(kind)[i] : i \in 1..Len(KindCols(kind))} \cup {"votes"}

\* Mutant of Put: the mapping is rebuilt with the new kind alone.
PutAlone(m, k, v) == [x \in {k} |-> v]

\* analysis_results[kind] = value
Put(m, k, v) == [x \in DOMAIN m \cup {k} |-> IF x = k THEN v ELSE m[x]]

NoResults == [x \in {} |-> <<>>]

---------------------------------------------------------------------------
(* Validation *)

\* Mutant of Missing: only the first absent column is named.
MissingFirst(t) ==
    LET all == SelectSeq(required_columns, LAMBDA c : c \notin t.columns)
    IN IF all = <<>> THEN <<>> ELSE <<all[1]>>

Missing(t) == SelectSeq(required_columns, LAMBDA c : c \notin t.columns)

---------------------------------------------------------------------------
(* Input files *)

Row(r, c, p, v) == [region |-> r, candidate |-> c, party |-> p, votes |-> v]

\* The rows of the input files: every combination of the labels and votes,
\* and rows whose region cell is empty.
Rows ==
    {Row(r, c, p, v) : r \in Regions, c \in Candidates, p \in Parties, v \in VoteVals}
    \cup {Row(NaN, 1, 1, v) : v \in VoteVals}

\* Every table of at most MaxRows rows with the four required columns.
Tables == {Frame(AllColumns, rs) : rs \in SeqsUpTo(Rows, MaxRows)}

\* n candidates of one party in one region, with pairwise different votes.
LongTable(n) == Frame(AllColumns, [i \in 1..n |-> Row(1, i, 1, (i * 5) % 13)])

LongTables == {LongTable(n) : n \in 0..MaxCandidates}

\* The tables a session loads: rows that differ in their region only, with
\* all four columns or without the party column.
SessionTables ==
    LET full == {Frame(AllColumns, rs) :
                    rs \in SeqsUpTo({Row(r, 1, 1, 1) : r \in Regions}, MaxRows)}
    IN full \cup {DropColumn(t, "party") : t \in full}

\* What the user names: a path that does not exist, a file that is neither
\* .csv nor .json, a file the parser rejects, a file that parses to a table,
\* or (in the file dialog) nothing.
LoadInputs ==
    {[status |-> st, table |-> NoData] :
        st \in {"missing", "unsupported", "corrupt", "cancel"}}
    \cup {[status |-> "table", table |-> t] : t \in SessionTables}

LoadError(f) ==
    CASE f.status = "missing" -> "FileNotFound"
      [] f.status = "unsupported" -> "Unsupported"
      [] f.status = "corrupt" -> "ParseError"
      [] f.status = "cancel" -> "cancelled"

---------------------------------------------------------------------------
(* Report text, as a sequence of lines *)

Line(text, key, val) == [text |-> text, key |-> key, val |-> val]

BlankLine == Line("", <<>>, 0)

IndexNames(kind) ==
    CASE kind = "turnout_by_region" -> "region"
      [] kind = "party_performance" -> "party"
      [] kind = "candidate_performance" -> "candidate party"

\* MultiIndex display: an outer label equal to the one on the line above is
\* left blank; the innermost label is always shown.
Sparsify(s, i) ==
    [l \in 1..Len(s[i].key) |->
        IF /\ i > 1
           /\ l < Len(s[i].key)
           /\ \A m \in 1..l : s[i].key[m] = s[i - 1].key[m]
        THEN Blank
        ELSE s[i].key[l]]

\* Series.to_string(): the index names, then one line per entry.
to_string(s, kind) ==
    IF Len(s) = 0
    THEN <<Line("Series([], )", <<>>, 0)>>
    ELSE <<Line(IndexNames(kind), <<>>, 0)>>
         \o [i \in 1..Len(s) |-> Line("entry", Sparsify(s, i), s[i].total)]

Preamble(ts) ==
    <<Line("ELECTION ANALYSIS REPORT", <<>>, 0),
      Line("========================================", <<>>, 0),
      BlankLine,
      Line("Generated on: ", <<>>, ts),
      BlankLine>>

\* header, series.to_string(), "\n\n"; nothing when the kind is not stored.
Block(results, kind, header) ==
    IF kind \in DOMAIN results
    THEN <<Line(header, <<>>, 0)>> \o to_string(results[kind], kind) \o <<BlankLine>>
    ELSE <<>>

\* header, series.head(n).to_string(), "\n\n"
TopBlock(results, kind, header, n) ==
    IF kind \in DOMAIN results
    THEN <<Line(header, <<>>, 0)>> \o to_string(head(results[kind], n), kind) \o <<BlankLine>>
    ELSE <<>>

\* What generate_report of the console analyzer writes for the three kinds.
ReportText(results, ts) ==
    Preamble(ts)
    \o Block(results, "turnout_by_region", "VOTER TURNOUT BY REGION:")
    \o Block(results, "party_performance", "PARTY PERFORMANCE:")
    \o TopBlock(results, "candidate_performance", "CANDIDATE PERFORMANCE:", TopN)

VizNote(viz) ==
    IF "latest" \in DOMAIN viz
    THEN <<Line("Visualization saved to: ", <<>>, viz["latest"])>>
    ELSE <<>>

\* What generate_report of the desktop application writes.
AppReportText(results, ts) ==
    Preamble(ts)
    \o Block(results, "turnout_by_region", "VOTER TURNOUT BY REGION:")
    \o Block(results, "party_performance", "PARTY PERFORMANCE:")
    \o TopBlock(results, "candidate_performance", "CANDIDATE PERFORMANCE (TOP 10):", TopN)

PngName(ts) == Line("election_analysis_.png", <<>>, ts)

---------------------------------------------------------------------------
(* Outcome of the last operation: what it reported and what it wrote *)

Result(op, kind, err, missing, written) ==
    [op |-> op, kind |-> kind, err |-> err, missing |-> missing, written |-> written]

\* A report file: the results mapping and the timestamp it was written from,
\* and its text.
Kept(results, ts, text) == [any |-> TRUE, results |-> results, ts |-> ts, text |-> text]

NoKept == [any |-> FALSE, results |-> NoResults, ts |-> 0, text |-> <<>>]

---------------------------------------------------------------------------
(* Console analyzer: ElectionDataAnalyzer *)

\* Mutant of Analyze: the "no data loaded" test is missing, so validate_data
\* reads the columns of None.
AnalyzeUnguarded(kind) ==
    /\ shell = "cli"
    /\ IF ~data.loaded
       THEN /\ outcome' = Result("analyze", kind, "AttributeError", <<>>, <<>>)
            /\ UNCHANGED analysis_results
       ELSE IF Missing(data) # <<>>
       THEN /\ outcome' = Result("analyze", kind, "MissingColumns", Missing(data), <<>>)
            /\ UNCHANGED analysis_results
       ELSE \E r \in SortValues(GroupBySum(data, KindCols(kind))) :
            /\ analysis_results' = Put(analysis_results, kind, r)
            /\ outcome' = Result("analyze", kind, "ok", <<>>, <<>>)
    /\ UNCHANGED <<shell, kept, data, visualizations>>

\* analyze_turnout / analyze_party_performance / analyze_candidate_performance
Analyze(kind) ==
    /\ shell = "cli"
    /\ IF ~data.loaded
       THEN /\ outcome' = Result("analyze", kind, "NoDataLoaded", <<>>, <<>>)
            /\ UNCHANGED analysis_results
       ELSE IF Missing(data) # <<>>
       THEN /\ outcome' = Result("analyze", kind, "MissingColumns", Missing(data), <<>>)
            /\ UNCHANGED analysis_results
       ELSE \E r \in SortValues(GroupBySum(data, KindCols(kind))) :
            /\ analysis_results' = Put(analysis_results, kind, r)
            /\ outcome' = Result("analyze", kind, "ok", <<>>, <<>>)
    /\ UNCHANGED <<shell, kept, data, visualizations>>

\* Mutant of LoadData: a failed load forgets the table loaded before.
LoadDataClearing(f) ==
    /\ shell = "cli"
    /\ f.status \in {"missing", "unsupported", "corrupt", "table"}
    /\ IF f.status = "table"
       THEN /\ data' = f.table
            /\ outcome' = Result("load", "", "ok", <<>>, <<>>)
       ELSE /\ data' = NoData
            /\ outcome' = Result("load", "", LoadError(f), <<>>, <<>>)
    /\ UNCHANGED <<shell, kept, analysis_results, visualizations>>

\* load_data(file_path): nothing is validated here, and analysis_results is kept.
LoadData(f) ==
    /\ shell = "cli"
    /\ f.status \in {"missing", "unsupported", "corrupt", "table"}
    /\ IF f.status = "table"
       THEN /\ data' = f.table
            /\ outcome' = Result("load", "", "ok", <<>>, <<>>)
       ELSE /\ UNCHANGED data
            /\ outcome' = Result("load", "", LoadError(f), <<>>, <<>>)
    /\ UNCHANGED <<shell, kept, analysis_results, visualizations>>

\* generate_visualizations()
GenerateVisualizations(ts) ==
    /\ shell = "cli"
    /\ IF DOMAIN analysis_results = {}
       THEN /\ outcome' = Result("visualize", "", "NoAnalysisResults", <<>>, <<>>)
            /\ UNCHANGED visualizations
       ELSE /\ visualizations' = Put(visualizations, "latest", ts)
            /\ outcome' = Result("visualize", "", "ok", <<>>, <<PngName(ts)>>)
    /\ UNCHANGED <<shell, kept, data, analysis_results>>

\* Mutant of GenerateReport: the "no analysis results" test is missing.
GenerateReportUnguarded(ts) ==
    /\ shell = "cli"
    /\ outcome' = Result("report", "", "ok", <<>>,
                         ReportText(analysis_results, ts) \o VizNote(visualizations))
    /\ UNCHANGED <<shell, kept, data, analysis_results, visualizations>>

\* generate_report()
GenerateReport(ts) ==
    /\ shell = "cli"
    /\ IF DOMAIN analysis_results = {}
       THEN outcome' = Result("report", "", "NoAnalysisResults", <<>>, <<>>)
       ELSE outcome' = Result("report", "", "ok", <<>>,
                              ReportText(analysis_results, ts) \o VizNote(visualizations))
    /\ UNCHANGED <<shell, kept, data, analysis_results, visualizations>>

---------------------------------------------------------------------------
(* Desktop application: ElectionAnalyzerApp *)

\* load_data(file_type): the table is stored before its columns are checked.
AppLoadData(f) ==
    /\ shell = "gui"
    /\ f.status \in {"cancel", "missing", "corrupt", "table"}
    /\ IF f.status = "table"
       THEN /\ data' = f.table
            /\ outcome' = IF Missing(f.table) # <<>>
                          THEN Result("load", "", "MissingColumns", Missing(f.table), <<>>)
                          ELSE Result("load", "", "ok", <<>>, <<>>)
       ELSE /\ UNCHANGED data
            /\ outcome' = Result("load", "", LoadError(f), <<>>, <<>>)
    /\ UNCHANGED <<shell, kept, analysis_results, visualizations>>

\* Mutant of AppAnalyze: the result slot is assigned before the groupby runs,
\* so a failing analysis leaves an empty series behind.
AppAnalyzeStoreFirst(kind) ==
    /\ shell = "gui"
    /\ IF ~data.loaded
       THEN /\ outcome' = Result("analyze", kind, "NoDataLoaded", <<>>, <<>>)
            /\ UNCHANGED analysis_results
       ELSE IF ~(KindReads(kind) \subseteq data.columns)
       THEN /\ outcome' = Result("analyze", kind, "KeyError", <<>>, <<>>)
            /\ analysis_results' = Put(analysis_results, kind, <<>>)
       ELSE \E r \in SortValues(GroupBySum(data, KindCols(kind))) :
            /\ analysis_results' = Put(analysis_results, kind, r)
            /\ outcome' = Result("analyze", kind, "ok", <<>>, <<>>)
    /\ UNCHANGED <<shell, kept, data, visualizations>>

\* analyze_turnout / analyze_party_performance / analyze_candidate_performance:
\* validate_data only asks whether a table is loaded; a column the groupby
\* names and the table lacks raises KeyError inside the try block.
AppAnalyze(kind) ==
    /\ shell = "gui"
    /\ IF ~data.loaded
       THEN /\ outcome' = Result("analyze", kind, "NoDataLoaded", <<>>, <<>>)
            /\ UNCHANGED analysis_results
       ELSE IF ~(KindReads(kind) \subseteq data.columns)
       THEN /\ outcome' = Result("analyze", kind, "KeyError", <<>>, <<>>)
            /\ UNCHANGED analysis_results
       ELSE \E r \in SortValues(GroupBySum(data, KindCols(kind))) :
            /\ analysis_results' = Put(analysis_results, kind, r)
            /\ outcome' = Result("analyze", kind, "ok", <<>>, <<>>)
    /\ UNCHANGED <<shell, kept, data, visualizations>>

\* generate_visualizations(): the figure is saved, nothing is recorded.
AppGenerateVisualizations(ts) ==
    /\ shell = "gui"
    /\ IF DOMAIN analysis_results = {}
       THEN outcome' = Result("visualize", "", "NoAnalysisResults", <<>>, <<>>)
       ELSE outcome' = Result("visualize", "", "ok", <<>>, <<PngName(ts)>>)
    /\ UNCHANGED <<shell, kept, data, analysis_results, visualizations>>

\* generate_report(): chosen is FALSE when the save dialog is dismissed.
AppGenerateReport(ts, chosen) ==
    /\ shell = "gui"
    /\ IF DOMAIN analysis_results = {}
       THEN outcome' = Result("report", "", "NoAnalysisResults", <<>>, <<>>)
       ELSE IF ~chosen
       THEN outcome' = Result("report", "", "cancelled", <<>>, <<>>)
       ELSE outcome' = Result("report", "", "ok", <<>>, AppReportText(analysis_results, ts))
    /\ UNCHANGED <<shell, kept, data, analysis_results, visualizations>>

---------------------------------------------------------------------------
(* Sessions: every operation sequence from a fresh object *)

Init ==
    /\ shell \in {"cli", "gui"}
    /\ data = NoData
    /\ analysis_results = NoResults
    /\ visualizations = NoResults
    /\ outcome = Result("init", "", "ok", <<>>, <<>>)
    /\ kept = NoKept

Next ==
    \/ \E f \in LoadInputs : LoadData(f)
    \/ \E kind \in Kinds : Analyze(kind)
    \/ \E ts \in Timestamps : GenerateVisualizations(ts)
    \/ \E ts \in Timestamps : GenerateReport(ts)
    \/ \E f \in LoadInputs : AppLoadData(f)
    \/ \E kind \in Kinds : AppAnalyze(kind)
    \/ \E ts \in Timestamps : AppGenerateVisualizations(ts)
    \/ \E ts \in Timestamps, chosen \in BOOLEAN : AppGenerateReport(ts, chosen)

Spec == Init /\ [][Next]_vars

---------------------------------------------------------------------------
(* Analyses and reports over one loaded table *)

InitAnalysis ==
    /\ shell \in {"cli", "gui"}
    /\ data \in Tables \cup LongTables
    /\ analysis_results = NoResults
    /\ visualizations = NoResults
    /\ outcome = Result("load", "", "ok", <<>>, <<>>)
    /\ kept = NoKept

NextAnalysis ==
    \/ \E kind \in Kinds : Analyze(kind)
    \/ \E ts \in Timestamps : GenerateReport(ts)
    \/ \E kind \in Kinds : AppAnalyze(kind)
    \/ \E ts \in Timestamps : AppGenerateReport(ts, TRUE)

SpecAnalysis == InitAnalysis /\ [][NextAnalysis]_vars

---------------------------------------------------------------------------
(* Session claims *)

Stored == DOMAIN analysis_results

InvalidTableInput(f) == f.status = "table" /\ Missing(f.table) # <<>>

\* C1: a successful load of new data discards every stored analysis result:
\* right after it the results mapping is empty.
C1_ReloadDiscardsResults ==
    (outcome.op = "load" /\ outcome.err = "ok") => Stored = {}

\* C2: a load of a table that fails validation, attempted while no table is
\* loaded, stores no table and surfaces the validation error.
C2_InvalidLoadKeepsEmpty ==
    [][\A f \in LoadInputs :
        (~data.loaded /\ InvalidTableInput(f) /\ (LoadData(f) \/ AppLoadData(f)))
            => (~data'.loaded /\ outcome'.err = "MissingColumns")]_vars

\* C3: an analysis of any kind requested while no table is loaded fails with
\* NoDataLoaded and leaves the results mapping as it was.
C3_AnalyzeWithoutData ==
    [][(~data.loaded /\ outcome'.op = "analyze")
        => (outcome'.err = "NoDataLoaded" /\ analysis_results' = analysis_results)]_vars

C3_Witness ==
    /\ ~data.loaded
    /\ outcome.op = "analyze"
    /\ outcome.err = "NoDataLoaded"
    /\ outcome.kind = "candidate_performance"

C6_FailedAnalysisPublishesNothing ==
    [][(outcome'.op = "analyze" /\ outcome'.err # "ok")
        => analysis_results' = analysis_results]_vars

C6_Witness ==
    /\ outcome.op = "analyze"
    /\ outcome.err \in {"MissingColumns", "KeyError"}
    /\ data.loaded
    /\ outcome.kind \in Stored
    /\ Len(analysis_results[outcome.kind]) > 0

---------------------------------------------------------------------------
(* What a ranked series of a table is, stated on the table's rows *)

RowIds(t) == 1..Len(t.rows)

\* The rows of t whose key over cols is k.
RowsOf(t, cols, k) == {i \in RowIds(t) : KeyOf(t.rows[i], cols) = k}

VotesIn(t, I) == Sum([i \in I |-> t.rows[i]["votes"]], I)

SeriesKeys(s) == {s[i].key : i \in 1..Len(s)}

NonIncreasing(s) == \A i, j \in 1..Len(s) : i < j => s[i].total >= s[j].total

\* s has one entry per key occurring in t, each with the votes of its rows,
\* in non-increasing order of total.
IsRankingOf(s, t, cols) ==
    /\ SeriesKeys(s) = {KeyOf(t.rows[i], cols) : i \in RowIds(t)}
    /\ Len(s) = Cardinality(SeriesKeys(s))
    /\ \A i \in 1..Len(s) : s[i].total = VotesIn(t, RowsOf(t, cols, s[i].key))
    /\ NonIncreasing(s)

\* All four columns, no missing cell, votes a non-negative whole number.
Valid(t) ==
    /\ t.loaded
    /\ t.columns = AllColumns
    /\ \A i \in RowIds(t) :
        /\ \A c \in {"region", "candidate", "party"} : t.rows[i][c] # NaN
        /\ t.rows[i]["votes"] \in Nat

\* C5: a successful analysis of a kind stores, for that kind, the ranked
\* series of the table loaded now, and leaves the other kinds' results and
\* the table as they were.
C5_AnalysisReplacesOneKind ==
    [][(outcome'.op = "analyze" /\ outcome'.err = "ok")
        => /\ DOMAIN analysis_results' = Stored \cup {outcome'.kind}
           /\ \A k \in Stored \ {outcome'.kind} : analysis_results'[k] = analysis_results[k]
           /\ data' = data
           /\ Valid(data) =>
                IsRankingOf(analysis_results'[outcome'.kind], data, KindCols(outcome'.kind))]_vars

\* A second table has been loaded and analysed for one kind while a result of
\* the first table is still stored for another kind.
C5_Witness ==
    /\ outcome.op = "analyze"
    /\ outcome.err = "ok"
    /\ outcome.kind = "turnout_by_region"
    /\ Valid(data)
    /\ Stored = {"turnout_by_region", "party_performance"}
    /\ Len(analysis_results["turnout_by_region"]) = 2
    /\ ~IsRankingOf(analysis_results["party_performance"], data, KindCols("party_performance"))

---------------------------------------------------------------------------
(* Claims about the analyses of one loaded table *)

SeriesSum(s) == Sum([i \in 1..Len(s) |-> s[i].total], 1..Len(s))

\* The first row of t that carries key k.
FirstRow(t, cols, k) == CHOOSE i \in RowsOf(t, cols, k) : \A j \in RowsOf(t, cols, k) : i <= j

\* C7: conservation: for a valid table the totals of every stored series add
\* up to the votes of all rows of the table.
C7_Conservation ==
    Valid(data) =>
        \A k \in Stored : SeriesSum(analysis_results[k]) = VotesIn(data, RowIds(data))

\* All three analyses of a valid table in which two rows share a region and a
\* party but not a candidate.
C7_Witness ==
    /\ Valid(data)
    /\ Stored = Kinds
    /\ Len(data.rows) = MaxRows
    /\ Len(analysis_results["turnout_by_region"]) = 1
    /\ Len(analysis_results["candidate_performance"]) = 2
    /\ analysis_results["turnout_by_region"][1].total > 2

\* C8: for a valid table every stored series has exactly one entry per key
\* occurring in the table and its totals never increase along the series.
C8_OneEntryPerGroupRanked ==
    Valid(data) =>
        \A k \in Stored :
            LET s == analysis_results[k] IN
            /\ SeriesKeys(s) = {KeyOf(data.rows[i], KindCols(k)) : i \in RowIds(data)}
            /\ Len(s) = Cardinality(SeriesKeys(s))
            /\ NonIncreasing(s)

\* Two regions with different totals, ranked, and only one party.
C8_Witness ==
    /\ Valid(data)
    /\ Stored = Kinds
    /\ Len(analysis_results["turnout_by_region"]) = 2
    /\ analysis_results["turnout_by_region"][1].total > analysis_results["turnout_by_region"][2].total
    /\ analysis_results["turnout_by_region"][1].key = <<2>>
    /\ Len(analysis_results["party_performance"]) = 1

\* C9: two groups with equal totals appear in a stored series in the order in
\* which their keys first occur in the table.
C9_TiesInFirstOccurrenceOrder ==
    Valid(data) =>
        \A k \in Stored :
            LET s == analysis_results[k] IN
            \A i, j \in 1..Len(s) :
                (i < j /\ s[i].total = s[j].total)
                    => FirstRow(data, KindCols(k), s[i].key) < FirstRow(data, KindCols(k), s[j].key)

---------------------------------------------------------------------------
(* Claims about the report *)

HeaderOf(sh, kind) ==
    CASE kind = "turnout_by_region" -> "VOTER TURNOUT BY REGION:"
      [] kind = "party_performance" -> "PARTY PERFORMANCE:"
      [] kind = "candidate_performance" ->
            IF sh = "cli" THEN "CANDIDATE PERFORMANCE:" ELSE "CANDIDATE PERFORMANCE (TOP 10):"

KindRank(kind) ==
    CASE kind = "turnout_by_region" -> 1
      [] kind = "party_performance" -> 2
      [] kind = "candidate_performance" -> 3

Positions(w, text) == {i \in 1..Len(w) : w[i].text = text}

\* How many entries of a stored series the report lists.
Listed(kind) ==
    LET n == Len(analysis_results[kind])
    IN IF kind = "candidate_performance" /\ n > TopN THEN TopN ELSE n

\* C10: a report starts with the title and the timestamp line, then holds the
\* block of each stored kind and of no other kind, in the order turnout, party,
\* candidate; a block lists the entries of its series in ranked order, the
\* candidate block the first min(10, length) of them only.
C10_ReportLayout ==
    (outcome.op = "report" /\ outcome.err = "ok") =>
        LET w == outcome.written
            At(k) == CHOOSE i \in Positions(w, HeaderOf(shell, k)) : TRUE
        IN
        /\ w[1].text = "ELECTION ANALYSIS REPORT"
        /\ Positions(w, "Generated on: ") = {4}
        /\ w[4].val \in Timestamps
        /\ \A k \in Kinds :
            Cardinality(Positions(w, HeaderOf(shell, k))) = IF k \in Stored THEN 1 ELSE 0
        /\ \A k \in Stored : At(k) > 4
        /\ \A k1, k2 \in Stored : KindRank(k1) < KindRank(k2) => At(k1) < At(k2)
        /\ \A k \in Stored :
            /\ \A i \in 1..Listed(k) :
                LET l == w[At(k) + 1 + i]
                    e == analysis_results[k][i]
                IN /\ l.text = "entry"
                   /\ l.val = e.total
                   /\ Len(l.key) = Len(e.key)
                   /\ l.key[Len(l.key)] = e.key[Len(e.key)]
                   /\ \A m \in 1..Len(l.key) : l.key[m] \in {e.key[m], Blank}
            /\ w[At(k) + 2 + Listed(k)] = BlankLine
        /\ Cardinality(Positions(w, "entry")) = Sum([k \in Stored |-> Listed(k)], Stored)
        /\ Len(w) = 5 + Sum([k \in Stored |-> 3 + Listed(k)], Stored)
                      + (IF "latest" \in DOMAIN visualizations THEN 1 ELSE 0)

\* A report of all three kinds whose candidate series is longer than ten.
C10_Witness ==
    /\ outcome.op = "report"
    /\ outcome.err = "ok"
    /\ Stored = Kinds
    /\ Len(analysis_results["candidate_performance"]) > TopN

---------------------------------------------------------------------------
(* Two runs of the program, one after the other *)

\* The files of these runs: one row each, of one region or the other.
RunInputs ==
    {[status |-> "table", table |-> Frame(AllColumns, <<Row(r, 1, 1, 1)>>)] : r \in Regions}

\* The program is left after a report and started again: the report file
\* stays, the new object starts empty.
Restart ==
    /\ outcome.op = "report"
    /\ outcome.err = "ok"
    /\ kept' = Kept(analysis_results, outcome.written[4].val, outcome.written)
    /\ data' = NoData
    /\ analysis_results' = NoResults
    /\ visualizations' = NoResults
    /\ outcome' = Result("init", "", "ok", <<>>, <<>>)
    /\ UNCHANGED shell

NextRuns ==
    \/ \E f \in RunInputs : LoadData(f)
    \/ \E kind \in Kinds : Analyze(kind)
    \/ \E ts \in Timestamps : GenerateVisualizations(ts)
    \/ \E ts \in Timestamps : GenerateReport(ts)
    \/ \E f \in RunInputs : AppLoadData(f)
    \/ \E kind \in Kinds : AppAnalyze(kind)
    \/ \E ts \in Timestamps : AppGenerateVisualizations(ts)
    \/ \E ts \in Timestamps : AppGenerateReport(ts, TRUE)
    \/ Restart

SpecRuns == Init /\ [][NextRuns]_vars

\* C11: the report text depends on the results mapping and the timestamp
\* only: a report written from the same results mapping and timestamp as the
\* report of an earlier run has the same text.
C11_ReportDependsOnResultsAndTime ==
    (/\ kept.any
     /\ outcome.op = "report"
     /\ outcome.err = "ok"
     /\ kept.results = analysis_results
     /\ kept.ts = outcome.written[4].val)
        => kept.text = outcome.written

---------------------------------------------------------------------------
(* Validation of files of every schema *)

\* The schemas: any of the four required columns and of one more column.
Schemas == SUBSET (AllColumns \cup {"year"})

\* The votes cells of these files: a vote count and a negative number.
VoteCells == {1, -1}

SchemaRow(cols, v) ==
    [c \in cols |-> IF c = "votes" THEN v ELSE 1]

\* For every schema, the table without rows and the tables of one row.
SchemaTables ==
    {Frame(cols, <<>>) : cols \in Schemas}
    \cup {Frame(cols, <<SchemaRow(cols, v)>>) : cols \in Schemas \ {{}}, v \in VoteCells}

SchemaInputs == {[status |-> "table", table |-> t] : t \in SchemaTables}

NextValidate ==
    \/ \E f \in SchemaInputs : LoadData(f)
    \/ \E kind \in Kinds : Analyze(kind)
    \/ \E f \in SchemaInputs : AppLoadData(f)
    \/ \E kind \in Kinds : AppAnalyze(kind)

SpecValidate == Init /\ [][NextValidate]_vars

AbsentColumns(t) == AllColumns \ t.columns

\* Some votes cell of t is not a non-negative whole number.
BadVotes(t) ==
    /\ "votes" \in t.columns
    /\ \E i \in RowIds(t) : t.rows[i]["votes"] \notin Nat

\* C12: a table with all four columns and a votes cell that is not a
\* non-negative whole number is rejected with InvalidVotesValue, by the
\* validation of the console analyzer's analyses and by the desktop
\* application's load, and no analysis result is computed from it.
C12_BadVotesRejected ==
    [][/\ (/\ outcome'.op = "analyze"
           /\ data.loaded
           /\ AbsentColumns(data) = {}
           /\ BadVotes(data))
            => (outcome'.err = "InvalidVotesValue" /\ analysis_results' = analysis_results)
       /\ \A f \in SchemaInputs :
            (AbsentColumns(f.table) = {} /\ BadVotes(f.table) /\ AppLoadData(f))
                => outcome'.err = "InvalidVotesValue"]_vars

ColumnRank(c) ==
    CASE c = "region" -> 1
      [] c = "candidate" -> 2
      [] c = "party" -> 3
      [] c = "votes" -> 4

\* missing names the absent required columns of t, each once, in the order
\* region, candidate, party, votes.
NamesAbsent(missing, t) ==
    /\ {missing[i] : i \in 1..Len(missing)} = AbsentColumns(t)
    /\ \A i, j \in 1..Len(missing) :
        i < j => ColumnRank(missing[i]) < ColumnRank(missing[j])

\* C13: validation (in the console analyzer at the start of every analysis,
\* in the desktop application at the end of a load) fails exactly when a
\* required column is absent, and then names exactly the absent required
\* columns in the order region, candidate, party, votes; when none is absent
\* it succeeds, and in both cases the table is the one that was read.
C13_MissingColumnsExact ==
    [][/\ (shell = "cli" /\ outcome'.op = "analyze" /\ data.loaded)
            => /\ (outcome'.err = "MissingColumns") <=> (AbsentColumns(data) # {})
               /\ outcome'.err = "MissingColumns" => NamesAbsent(outcome'.missing, data)
               /\ outcome'.err # "MissingColumns" => outcome'.err = "ok"
               /\ data' = data
       /\ \A f \in SchemaInputs :
            AppLoadData(f)
                => /\ (outcome'.err = "MissingColumns") <=> (AbsentColumns(f.table) # {})
                   /\ outcome'.err = "MissingColumns" => NamesAbsent(outcome'.missing, f.table)
                   /\ outcome'.err # "MissingColumns" => outcome'.err = "ok"
                   /\ data' = f.table]_vars

\* An analysis of a table that has a fifth column and lacks two required ones.
C13_Witness ==
    /\ shell = "cli"
    /\ outcome.op = "analyze"
    /\ outcome.err = "MissingColumns"
    /\ outcome.missing = <<"candidate", "votes">>
    /\ data.columns = {"region", "party", "year"}
    /\ Len(data.rows) = 1

---------------------------------------------------------------------------
(* Failed loads of the console analyzer *)

\* C14: in the console analyzer a load that fails (file not found,
\* unsupported extension, parse error) reports the failure and leaves the
\* table loaded before and the stored analysis results as they were.
C14_FailedLoadKeepsState ==
    [][(shell = "cli" /\ outcome'.op = "load" /\ outcome'.err # "ok")
        => /\ outcome'.err \in {"FileNotFound", "Unsupported", "ParseError"}
           /\ data' = data
           /\ analysis_results' = analysis_results
           /\ visualizations' = visualizations]_vars

\* A failed load after a table was loaded and analysed.
C14_Witness ==
    /\ shell = "cli"
    /\ outcome.op = "load"
    /\ outcome.err = "ParseError"
    /\ data.loaded
    /\ Stored # {}

====
